---- MODULE Spec2Model ----
(***************************************************************************)
(* Model of the configuration loader of another-mq (src/config.rs):        *)
(* the two variant parsers (SyslogProtocol, SyslogFacility), the           *)
(* translation of a facility to the syslog crate's identifier, the         *)
(* serde-derived schema tree with its defaulting rules, the three          *)
(* platform branches of Config::from_config_file and Config::from_file.    *)
(*                                                                         *)
(* Text is modelled as TLA+ strings.  A token handed to a parser is kept   *)
(* as a sequence of one-character strings so that letter case can be       *)
(* folded; Str turns it into the string the match arms compare against.    *)
(***************************************************************************)
EXTENDS Integers, Sequences, FiniteSets, TLC

VARIABLES
    \* ---- variant parsers -------------------------------------------------
    value,        \* the token given to the visitors (sequence of characters)
    protocol,     \* result of SyslogProtocolVisitor::visit_str, or NotRun
    facility,     \* result of SyslogFacilityVisitor::visit_str, or NotRun
    ext,          \* result of Into<syslog::Facility>, or NotRun
    \* ---- loader ----------------------------------------------------------
    pc,           \* position of the loader call
    entry,        \* entry point being executed
    target_os,    \* the cfg(target_os) branch compiled in
    calls,        \* number of loader calls started so far
    install_prefix, \* the prefix local of from_config_file
    config_path,  \* the path handed to fs::read_to_string
    raw,          \* outcome of fs::read_to_string
    parsed,       \* outcome of toml::from_str
    result,       \* the Config returned to the caller
    trace,        \* the externally visible steps of the current call, in order
    brew,         \* outcome of Command::new("brew").arg("--prefix").output()
    env_var       \* outcome of the env::var lookup of the current call

parserVars == <<value, protocol, facility, ext>>
loaderVars == <<pc, entry, target_os, calls, install_prefix, config_path,
                raw, parsed, result, trace, brew, env_var>>
vars == <<value, protocol, facility, ext, pc, entry, target_os, calls,
          install_prefix, config_path, raw, parsed, result, trace, brew,
          env_var>>

\* a variable of the call that has not been assigned yet
NotRun == [run |-> FALSE]
Unset == "<unset>"
NoneV == [some |-> FALSE]
Some(x) == [some |-> TRUE, val |-> x]

Ok(v) == [ok |-> TRUE, val |-> v]
Err(e) == [ok |-> FALSE, err |-> e]

(***************************************************************************)
(* Text helpers                                                            *)
(***************************************************************************)
LowerLetters == <<"a","b","c","d","e","f","g","h","i","j","k","l","m",
                  "n","o","p","q","r","s","t","u","v","w","x","y","z">>
UpperLetters == <<"A","B","C","D","E","F","G","H","I","J","K","L","M",
                  "N","O","P","Q","R","S","T","U","V","W","X","Y","Z">>

UpperOf(c) ==
    IF \E i \in 1..26 : LowerLetters[i] = c
    THEN UpperLetters[CHOOSE i \in 1..26 : LowerLetters[i] = c]
    ELSE c

LowerOf(c) ==
    IF \E i \in 1..26 : UpperLetters[i] = c
    THEN LowerLetters[CHOOSE i \in 1..26 : UpperLetters[i] = c]
    ELSE c

ToUpper(s) == [i \in 1..Len(s) |-> UpperOf(s[i])]
ToLower(s) == [i \in 1..Len(s) |-> LowerOf(s[i])]

RECURSIVE Str(_)
Str(s) == IF s = <<>> THEN "" ELSE Head(s) \o Str(Tail(s))

\* every spelling of the word w that differs from it in letter case only
CaseVariants(w) ==
    LET letters == {i \in 1..Len(w) : UpperOf(w[i]) /= w[i]}
    IN  {[i \in 1..Len(w) |-> IF i \in S THEN UpperOf(w[i]) ELSE w[i]] :
            S \in SUBSET letters}

(***************************************************************************)
(* SyslogProtocol and its visitor                                          *)
(***************************************************************************)
SyslogProtocol == {"Rfc3164", "Rfc5424"}

\* the variant names handed to deserialize_enum (a hint for the format)
SyslogProtocolVariants == <<"rfc3164", "RFC3164", "rfc5324", "RFC5424">>

InvalidValue(v, exp) == Err([kind |-> "invalid_value", unexpected |-> v, expected |-> exp])

SyslogProtocol_visit_str_typo(v) ==
    CASE v \in {"rfc3164", "RFC3164"} -> Ok("Rfc3164")
      [] v \in {"rfc5324", "RFC5424"} -> Ok("Rfc5424")
      [] OTHER -> InvalidValue(v, "Unknown syslog protocol!")

SyslogProtocol_visit_str_mixed(v) ==
    CASE v \in {"rfc3164", "RFC3164", "Rfc3164"} -> Ok("Rfc3164")
      [] v \in {"rfc5424", "RFC5424", "Rfc5424"} -> Ok("Rfc5424")
      [] OTHER -> InvalidValue(v, "Unknown syslog protocol!")

SyslogProtocol_visit_str(v) ==
    CASE v \in {"rfc3164", "RFC3164"} -> Ok("Rfc3164")
      [] v \in {"rfc5424", "RFC5424"} -> Ok("Rfc5424")
      [] OTHER -> InvalidValue(v, "Unknown syslog protocol!")

(***************************************************************************)
(* SyslogFacility, its visitor and its translation                         *)
(***************************************************************************)
SyslogFacility ==
    {"Kern", "User", "Mail", "Daemon", "Auth", "Syslog", "Lpr", "News",
     "Uucp", "Cron", "AuthPriv", "Ftp", "Local0", "Local1", "Local2",
     "Local3", "Local4", "Local5", "Local6", "Local7"}

SyslogFacility_visit_str_folded(v) ==
    CASE v = "kern" -> Ok("Kern")
      [] v = "user" -> Ok("User")
      [] v = "mail" -> Ok("Mail")
      [] v = "daemon" -> Ok("Daemon")
      [] v = "auth" -> Ok("Auth")
      [] v = "syslog" -> Ok("Syslog")
      [] v = "lpr" -> Ok("Lpr")
      [] v = "news" -> Ok("News")
      [] v = "uucp" -> Ok("Uucp")
      [] v = "cron" -> Ok("Cron")
      [] v = "authpriv" -> Ok("AuthPriv")
      [] v = "ftp" -> Ok("Ftp")
      [] v = "local0" -> Ok("Local0")
      [] v = "local1" -> Ok("Local1")
      [] v = "local2" -> Ok("Local2")
      [] v = "local3" -> Ok("Local3")
      [] v = "local4" -> Ok("Local4")
      [] v = "local5" -> Ok("Local5")
      [] v = "local6" -> Ok("Local6")
      [] v \in {"local7", "LOCAL7"} -> Ok("Local7")
      [] OTHER -> InvalidValue(v, "Unknown syslog facility!")

SyslogFacility_visit_str(v) ==
    CASE v = "kern" -> Ok("Kern")
      [] v = "user" -> Ok("User")
      [] v = "mail" -> Ok("Mail")
      [] v = "daemon" -> Ok("Daemon")
      [] v = "auth" -> Ok("Auth")
      [] v = "syslog" -> Ok("Syslog")
      [] v = "lpr" -> Ok("Lpr")
      [] v = "news" -> Ok("News")
      [] v = "uucp" -> Ok("Uucp")
      [] v = "cron" -> Ok("Cron")
      [] v = "authpriv" -> Ok("AuthPriv")
      [] v = "ftp" -> Ok("Ftp")
      [] v = "local0" -> Ok("Local0")
      [] v = "local1" -> Ok("Local1")
      [] v = "local2" -> Ok("Local2")
      [] v = "local3" -> Ok("Local3")
      [] v = "local4" -> Ok("Local4")
      [] v = "local5" -> Ok("Local5")
      [] v = "local6" -> Ok("Local6")
      [] v = "local7" -> Ok("Local7")
      [] OTHER -> InvalidValue(v, "Unknown syslog facility!")

SyslogFacility_into_slip(f) ==
    CASE f = "Kern" -> "LOG_KERN"
      [] f = "User" -> "LOG_USER"
      [] f = "Mail" -> "LOG_MAIL"
      [] f = "Daemon" -> "LOG_DAEMON"
      [] f = "Auth" -> "LOG_AUTH"
      [] f = "Syslog" -> "LOG_SYSLOG"
      [] f = "Lpr" -> "LOG_LPR"
      [] f = "News" -> "LOG_NEWS"
      [] f = "Uucp" -> "LOG_UUCP"
      [] f = "Cron" -> "LOG_CRON"
      [] f = "AuthPriv" -> "LOG_AUTH"
      [] f = "Ftp" -> "LOG_FTP"
      [] f = "Local0" -> "LOG_LOCAL0"
      [] f = "Local1" -> "LOG_LOCAL1"
      [] f = "Local2" -> "LOG_LOCAL2"
      [] f = "Local3" -> "LOG_LOCAL3"
      [] f = "Local4" -> "LOG_LOCAL4"
      [] f = "Local5" -> "LOG_LOCAL5"
      [] f = "Local6" -> "LOG_LOCAL6"
      [] f = "Local7" -> "LOG_LOCAL7"

SyslogFacility_into(f) ==
    CASE f = "Kern" -> "LOG_KERN"
      [] f = "User" -> "LOG_USER"
      [] f = "Mail" -> "LOG_MAIL"
      [] f = "Daemon" -> "LOG_DAEMON"
      [] f = "Auth" -> "LOG_AUTH"
      [] f = "Syslog" -> "LOG_SYSLOG"
      [] f = "Lpr" -> "LOG_LPR"
      [] f = "News" -> "LOG_NEWS"
      [] f = "Uucp" -> "LOG_UUCP"
      [] f = "Cron" -> "LOG_CRON"
      [] f = "AuthPriv" -> "LOG_AUTHPRIV"
      [] f = "Ftp" -> "LOG_FTP"
      [] f = "Local0" -> "LOG_LOCAL0"
      [] f = "Local1" -> "LOG_LOCAL1"
      [] f = "Local2" -> "LOG_LOCAL2"
      [] f = "Local3" -> "LOG_LOCAL3"
      [] f = "Local4" -> "LOG_LOCAL4"
      [] f = "Local5" -> "LOG_LOCAL5"
      [] f = "Local6" -> "LOG_LOCAL6"
      [] f = "Local7" -> "LOG_LOCAL7"

(***************************************************************************)
(* Documents.  A TOML value is tagged with its type; a table is a record   *)
(* over the keys the schema knows, a key the document omits being Absent.  *)
(* A text that is not TOML at all is Malformed.                            *)
(***************************************************************************)
Absent == [t |-> "absent"]
TStr(s) == [t |-> "str", v |-> s]
TInt(n) == [t |-> "int", n |-> n]
TTable(f) == [t |-> "table", f |-> f]
Malformed == [t |-> "malformed"]

MissingField(name) == Err([kind |-> "missing_field", field |-> name])
InvalidType(v, exp) == Err([kind |-> "invalid_type", unexpected |-> v.t, expected |-> exp])

\* what serde's derive generates for a field without, and with, a default,
\* and for an Option field
RequiredField(v, name, De(_)) == IF v = Absent THEN MissingField(name) ELSE De(v)
DefaultField(v, d, De(_)) == IF v = Absent THEN Ok(d) ELSE De(v)
OptionField(v, De(_)) ==
    IF v = Absent THEN Ok(NoneV)
    ELSE LET r == De(v) IN IF r.ok THEN Ok(Some(r.val)) ELSE r

\* ---- leaf types ---------------------------------------------------------
U16Max == 65535
u16_deserialize(v) ==
    IF v.t /= "int" THEN InvalidType(v, "u16")
    ELSE IF v.n < 0 \/ v.n > U16Max THEN InvalidValue("integer", "u16")
    ELSE Ok(v.n)

String_deserialize(v) ==
    IF v.t /= "str" THEN InvalidType(v, "a string") ELSE Ok(v.v)

\* std::net::IpAddr: the textual addresses the documents below use
IpAddrTexts == {"0.0.0.0", "127.0.0.1", "10.0.0.1"}
IpAddrOf(s) ==
    CASE s = "0.0.0.0" -> <<0, 0, 0, 0>>
      [] s = "127.0.0.1" -> <<127, 0, 0, 1>>
      [] s = "10.0.0.1" -> <<10, 0, 0, 1>>
IpAddr_deserialize(v) ==
    IF v.t /= "str" THEN InvalidType(v, "IP address")
    ELSE IF v.v \notin IpAddrTexts THEN InvalidValue(v.v, "IP address")
    ELSE Ok(IpAddrOf(v.v))

\* log::Level
LevelTexts == {"error", "warn", "info", "debug", "trace"}
LevelOf(s) ==
    CASE s = "error" -> "Error"
      [] s = "warn" -> "Warn"
      [] s = "info" -> "Info"
      [] s = "debug" -> "Debug"
      [] s = "trace" -> "Trace"
Level_deserialize(v) ==
    IF v.t /= "str" THEN InvalidType(v, "log level")
    ELSE IF v.v \notin LevelTexts THEN InvalidValue(v.v, "log level")
    ELSE Ok(LevelOf(v.v))

\* the custom Deserialize impls: deserialize_enum with a visitor that has
\* visit_str only, so a value that is no string is an error and a string is
\* decided by visit_str (the format crate is taken to hand it over as one)
SyslogProtocol_deserialize(v) ==
    IF v.t /= "str" THEN InvalidType(v, "Expecting rfc3164 or rfc5424")
    ELSE SyslogProtocol_visit_str(v.v)

SyslogFacility_deserialize(v) ==
    IF v.t /= "str" THEN InvalidType(v, "Expecting a syslog facility")
    ELSE SyslogFacility_visit_str(v.v)

\* ---- defaults -----------------------------------------------------------
DEFAULT_LISTENER_HOSTNAME == <<0, 0, 0, 0>>
DEFAULT_LISTENER_PORT == 5672

Log_default_level == "Info"
Network_default_hostname == DEFAULT_LISTENER_HOSTNAME
Network_default_port == DEFAULT_LISTENER_PORT

Log_default == [level |-> Log_default_level, file |-> NoneV, syslog |-> NoneV]
Syslog_default ==
    [host |-> NoneV, port |-> NoneV, protocol |-> "Rfc3164",
     facility |-> "User", process |-> ""]
Network_default ==
    [hostname |-> Network_default_hostname, port |-> Network_default_port]
Queue_default == "Queue"
Config_default ==
    [log |-> Log_default, network |-> Network_default, queue |-> Queue_default]

\* ---- derived Deserialize of the records ---------------------------------
Syslog_deserialize(v) ==
    IF v.t /= "table" THEN InvalidType(v, "struct Syslog")
    ELSE LET host == OptionField(v.f.host, IpAddr_deserialize)
             port == OptionField(v.f.port, u16_deserialize)
             prot == RequiredField(v.f.protocol, "protocol", SyslogProtocol_deserialize)
             faci == RequiredField(v.f.facility, "facility", SyslogFacility_deserialize)
             proc == RequiredField(v.f.process, "process", String_deserialize)
         IN  CASE ~host.ok -> host
               [] ~port.ok -> port
               [] ~prot.ok -> prot
               [] ~faci.ok -> faci
               [] ~proc.ok -> proc
               [] OTHER -> Ok([host |-> host.val, port |-> port.val,
                               protocol |-> prot.val, facility |-> faci.val,
                               process |-> proc.val])

Log_deserialize(v) ==
    IF v.t /= "table" THEN InvalidType(v, "struct Log")
    ELSE LET level == DefaultField(v.f.level, Log_default_level, Level_deserialize)
             file == OptionField(v.f.file, String_deserialize)
             syslog == OptionField(v.f.syslog, Syslog_deserialize)
         IN  CASE ~level.ok -> level
               [] ~file.ok -> file
               [] ~syslog.ok -> syslog
               [] OTHER -> Ok([level |-> level.val, file |-> file.val,
                               syslog |-> syslog.val])

Network_deserialize(v) ==
    IF v.t /= "table" THEN InvalidType(v, "struct Network")
    ELSE LET hostname == DefaultField(v.f.hostname, Network_default_hostname,
                                      IpAddr_deserialize)
             port == DefaultField(v.f.port, Network_default_port, u16_deserialize)
         IN  CASE ~hostname.ok -> hostname
               [] ~port.ok -> port
               [] OTHER -> Ok([hostname |-> hostname.val, port |-> port.val])

\* the unit struct: a key that is present yields the one Queue value (the
\* format crate is taken to accept what the document holds under it)
Queue_deserialize(v) == Ok(Queue_default)

Config_deserialize(v) ==
    LET log == RequiredField(v.f.log, "log", Log_deserialize)
        network == RequiredField(v.f.network, "network", Network_deserialize)
        queue == RequiredField(v.f.queue, "queue", Queue_deserialize)
    IN  CASE ~log.ok -> log
          [] ~network.ok -> network
          [] ~queue.ok -> queue
          [] OTHER -> Ok([log |-> log.val, network |-> network.val,
                          queue |-> queue.val])

\* toml::from_str::<Config>
toml_from_str(text) ==
    IF text = Malformed THEN Err([kind |-> "syntax"]) ELSE Config_deserialize(text)

(***************************************************************************)
(* The loader: Config::from_file and the three Config::from_config_file.   *)
(***************************************************************************)
MaxCalls == 2

WINDOWS_SUFFIX == "/another-mq/another-mq.toml"
UNIX_SUFFIX == "/etc/another-mq/another-mq.toml"

\* outcomes of env::var: the variable is unset (or not unicode), or has a value
EnvOutcomes(name) ==
    {Err("NotPresent")} \cup
    (IF name = "APPDATA" THEN {Ok("C:/Users/amq/AppData/Roaming")}
                         ELSE {Ok("/opt/amq"), Ok("")})

\* outcomes of running `brew --prefix`: the command cannot be started, or it
\* ran and wrote these bytes: the prefix and a line feed, nothing at all
\* (brew failed), or bytes that are not UTF-8
BrewOutcomes ==
    {Err("NotFound"),
     Ok([utf8 |-> TRUE, bytes |-> <<"/usr/local", "\n">>]),
     Ok([utf8 |-> TRUE, bytes |-> <<"/opt/homebrew", "\n">>]),
     Ok([utf8 |-> TRUE, bytes |-> <<>>]),
     Ok([utf8 |-> FALSE, bytes |-> <<"/usr/lo", "\\xff", "\n">>])}

\* String::from_utf8
String_from_utf8(out) ==
    IF out.utf8 THEN Ok(Str(out.bytes)) ELSE Err("FromUtf8Error")

\* env::var(..).unwrap_or_else(|_| "".into())
unwrap_or_empty(r) == IF r.ok THEN r.val ELSE ""

\* linux/unix: the prefix and the path computed from the lookup of ANOTHERMQ_HOME
unix_config_path(r) == unwrap_or_empty(r) \o UNIX_SUFFIX

\* ---- documents a file may hold ------------------------------------------
SyslogTables ==
    [host : {Absent, TStr("10.0.0.1")},
     port : {Absent, TInt(514)},
     protocol : {Absent, TStr("rfc5424"), TStr("Rfc5424")},
     facility : {Absent, TStr("local7"), TStr("LOCAL7")},
     process : {Absent, TStr("amq")}]

LogTables ==
    [level : {Absent, TStr("debug"), TInt(3)},
     file : {Absent, TStr("/var/log/amq.log")},
     syslog : {Absent} \cup {TTable(f) : f \in SyslogTables}]

NetworkTables ==
    [hostname : {Absent, TStr("127.0.0.1"), TStr("localhost")},
     port : {Absent, TInt(8080), TInt(70000)}]

Documents ==
    {TTable(f) : f \in
        [log : {Absent} \cup {TTable(l) : l \in LogTables},
         network : {Absent} \cup {TTable(n) : n \in NetworkTables},
         queue : {Absent, TTable(<<>>)}]}

\* outcomes of fs::read_to_string: an I/O error, or the text of the file
ReadOutcomes ==
    {Err("NotFound"), Err("PermissionDenied"), Ok(Malformed)} \cup
    {Ok(d) : d \in Documents}

Paths == {"another-mq.toml", "/nonexistent/another-mq.toml"}

\* ---- the tail every entry point shares: read, then parse ----------------
\* Err(_) arm of the read match
OnReadError == Config_default

OnParsed_keep(p) == IF p.ok THEN p.val ELSE [Config_default EXCEPT !.network.port = 0]

\* the match on toml::from_str
OnParsed(p) == IF p.ok THEN p.val ELSE Config_default

Locals ==
    /\ install_prefix = Unset
    /\ config_path = Unset
    /\ raw = NotRun
    /\ parsed = NotRun
    /\ result = NotRun
    /\ brew = NotRun
    /\ env_var = NotRun
    /\ trace = <<>>

LoaderInit ==
    /\ pc = "idle"
    /\ entry = Unset
    /\ target_os \in {"windows", "macos", "linux"}
    /\ calls = 0
    /\ Locals

ParserIdle ==
    /\ value = <<>>
    /\ protocol = NotRun
    /\ facility = NotRun
    /\ ext = Unset

Init == LoaderInit /\ ParserIdle

\* Config::from_file(path)
CallFromFile ==
    /\ pc = "idle"
    /\ calls < MaxCalls
    /\ \E path \in Paths : config_path' = path
    /\ entry' = "from_file"
    /\ calls' = calls + 1
    /\ pc' = "read"
    /\ UNCHANGED <<target_os, install_prefix, raw, parsed, result, trace, brew,
                   env_var, parserVars>>

\* Config::from_config_file()
CallFromConfigFile ==
    /\ pc = "idle"
    /\ calls < MaxCalls
    /\ entry' = "from_config_file"
    /\ calls' = calls + 1
    /\ pc' = "resolve"
    /\ UNCHANGED <<target_os, install_prefix, config_path, raw, parsed, result,
                   trace, brew, env_var, parserVars>>

\* windows: env::var("APPDATA").expect(..) and the path
ResolveWindows ==
    /\ pc = "resolve"
    /\ target_os = "windows"
    /\ \E r \in EnvOutcomes("APPDATA") :
        /\ env_var' = r
        /\ IF r.ok
           THEN /\ config_path' = r.val \o WINDOWS_SUFFIX
                /\ pc' = "read"
           ELSE /\ config_path' = config_path
                /\ pc' = "panicked"
    /\ trace' = Append(trace, "env")
    /\ UNCHANGED <<entry, target_os, calls, install_prefix, raw, parsed, result,
                   brew, parserVars>>

RunBrew_any_os ==
    /\ pc = "resolve"
    /\ target_os \in {"macos", "linux"}
    /\ \E o \in BrewOutcomes : brew' = o
    /\ trace' = Append(trace, "command")
    /\ pc' = "prefix"
    /\ UNCHANGED <<entry, target_os, calls, install_prefix, config_path, raw,
                   parsed, result, env_var, parserVars>>

\* macos: Command::new("brew").arg("--prefix").output()
RunBrew ==
    /\ pc = "resolve"
    /\ target_os = "macos"
    /\ \E o \in BrewOutcomes : brew' = o
    /\ trace' = Append(trace, "command")
    /\ pc' = "prefix"
    /\ UNCHANGED <<entry, target_os, calls, install_prefix, config_path, raw,
                   parsed, result, env_var, parserVars>>

\* macos: the match on the command's outcome, and the path
ResolveMacos ==
    /\ pc = "prefix"
    /\ IF brew.ok
       THEN LET s == String_from_utf8(brew.val)
            IN  /\ env_var' = env_var
                /\ trace' = trace
                /\ IF s.ok
                   THEN /\ install_prefix' = s.val
                        /\ config_path' = s.val \o UNIX_SUFFIX
                        /\ pc' = "read"
                   ELSE /\ install_prefix' = install_prefix
                        /\ config_path' = config_path
                        /\ pc' = "panicked"
       ELSE \E r \in EnvOutcomes("ANOTHERMQ_HOME") :
                /\ env_var' = r
                /\ trace' = Append(trace, "env")
                /\ install_prefix' = unwrap_or_empty(r)
                /\ config_path' = unwrap_or_empty(r) \o UNIX_SUFFIX
                /\ pc' = "read"
    /\ UNCHANGED <<entry, target_os, calls, raw, parsed, result, brew, parserVars>>

\* linux/unix: env::var("ANOTHERMQ_HOME").unwrap_or_else(..) and the path
ResolveUnix ==
    /\ pc = "resolve"
    /\ target_os = "linux"
    /\ \E r \in EnvOutcomes("ANOTHERMQ_HOME") :
        /\ env_var' = r
        /\ install_prefix' = unwrap_or_empty(r)
        /\ config_path' = unix_config_path(r)
    /\ trace' = Append(trace, "env")
    /\ pc' = "read"
    /\ UNCHANGED <<entry, target_os, calls, raw, parsed, result, brew, parserVars>>

\* fs::read_to_string(config_path) and the match on it
ReadFile ==
    /\ pc = "read"
    /\ \E r \in ReadOutcomes :
        /\ raw' = r
        /\ IF r.ok
           THEN /\ pc' = "parse"
                /\ result' = result
           ELSE /\ pc' = "done"
                /\ result' = OnReadError
    /\ trace' = Append(trace, "read")
    /\ UNCHANGED <<entry, target_os, calls, install_prefix, config_path, parsed,
                   brew, env_var, parserVars>>

\* toml::from_str(&raw) and the match on it
Parse ==
    /\ pc = "parse"
    /\ parsed' = toml_from_str(raw.val)
    /\ result' = OnParsed(toml_from_str(raw.val))
    /\ trace' = Append(trace, "parse")
    /\ pc' = "done"
    /\ UNCHANGED <<entry, target_os, calls, install_prefix, config_path, raw,
                   brew, env_var, parserVars>>

\* the call is over (returned or unwound); the caller may call again
Return ==
    /\ pc \in {"done", "panicked"}
    /\ calls < MaxCalls
    /\ pc' = "idle"
    /\ entry' = Unset
    /\ install_prefix' = Unset
    /\ config_path' = Unset
    /\ raw' = NotRun
    /\ parsed' = NotRun
    /\ result' = NotRun
    /\ brew' = NotRun
    /\ env_var' = NotRun
    /\ trace' = <<>>
    /\ UNCHANGED <<target_os, calls, parserVars>>

Next ==
    \/ CallFromFile
    \/ CallFromConfigFile
    \/ ResolveWindows
    \/ RunBrew
    \/ ResolveMacos
    \/ ResolveUnix
    \/ ReadFile
    \/ Parse
    \/ Return

Spec == Init /\ [][Next]_vars

(***************************************************************************)
(* The variant parsers on their own: a token is chosen, the visitors are   *)
(* applied to it, and a parsed facility is translated for the syslog crate.*)
(***************************************************************************)
\* the tokens the match arms of the facility visitor name
FacilityWords ==
    {<<"k", "e", "r", "n">>,
     <<"u", "s", "e", "r">>,
     <<"m", "a", "i", "l">>,
     <<"d", "a", "e", "m", "o", "n">>,
     <<"a", "u", "t", "h">>,
     <<"s", "y", "s", "l", "o", "g">>,
     <<"l", "p", "r">>,
     <<"n", "e", "w", "s">>,
     <<"u", "u", "c", "p">>,
     <<"c", "r", "o", "n">>,
     <<"a", "u", "t", "h", "p", "r", "i", "v">>,
     <<"f", "t", "p">>,
     <<"l", "o", "c", "a", "l", "0">>,
     <<"l", "o", "c", "a", "l", "1">>,
     <<"l", "o", "c", "a", "l", "2">>,
     <<"l", "o", "c", "a", "l", "3">>,
     <<"l", "o", "c", "a", "l", "4">>,
     <<"l", "o", "c", "a", "l", "5">>,
     <<"l", "o", "c", "a", "l", "6">>,
     <<"l", "o", "c", "a", "l", "7">>}

\* the spellings the protocol visitor and its variant list name
ProtocolWords ==
    {<<"r", "f", "c", "3", "1", "6", "4">>,
     <<"r", "f", "c", "5", "4", "2", "4">>,
     <<"r", "f", "c", "5", "3", "2", "4">>}

\* tokens that are no spelling of any of the above
OtherWords ==
    {<<>>,
     <<"r", "f", "c">>,
     <<"3", "1", "6", "4">>,
     <<"r", "f", "c", "3", "1", "6", "4", " ">>,
     <<"l", "o", "c", "a", "l", "8">>,
     <<"l", "o", "c", "a", "l">>,
     <<"k", "e", "r", "n", "e", "l">>,
     <<"a", "u", "t", "h", "-", "p", "r", "i", "v">>,
     <<"L", "O", "G", "_", "U", "S", "E", "R">>}

Tokens ==
    UNION {CaseVariants(w) : w \in FacilityWords \cup ProtocolWords} \cup OtherWords

LoaderIdle ==
    /\ pc = "idle"
    /\ entry = Unset
    /\ target_os = "linux"
    /\ calls = 0
    /\ Locals

ParserInit ==
    /\ LoaderIdle
    /\ value \in Tokens
    /\ protocol = NotRun
    /\ facility = NotRun
    /\ ext = Unset

\* SyslogProtocolVisitor::visit_str(value)
VisitProtocol ==
    /\ protocol = NotRun
    /\ protocol' = SyslogProtocol_visit_str(Str(value))
    /\ UNCHANGED <<value, facility, ext, loaderVars>>

\* SyslogFacilityVisitor::visit_str(value)
VisitFacility ==
    /\ facility = NotRun
    /\ facility' = SyslogFacility_visit_str(Str(value))
    /\ UNCHANGED <<value, protocol, ext, loaderVars>>

\* <SyslogFacility as Into<syslog::Facility>>::into
IntoFacility ==
    /\ facility /= NotRun
    /\ facility.ok
    /\ ext = Unset
    /\ ext' = SyslogFacility_into(facility.val)
    /\ UNCHANGED <<value, protocol, facility, loaderVars>>

ParserNext ==
    \/ VisitProtocol
    \/ VisitFacility
    \/ IntoFacility

ParserSpec == ParserInit /\ [][ParserNext]_vars

(***************************************************************************)
(* Properties of the variant parsers (checked under ParserSpec)            *)
(***************************************************************************)
ProtocolRan == protocol /= NotRun
FacilityRan == facility /= NotRun
Rejected(r) == ~r.ok /\ r.err.kind = "invalid_value"

\* C4: the protocol parser maps "rfc3164" and "RFC3164" to Rfc3164,
\* "rfc5424" and "RFC5424" to Rfc5424, and answers every other string with a
\* validation error.
C4_ProtocolTokens ==
    ProtocolRan =>
        /\ Str(value) \in {"rfc3164", "RFC3164"} => protocol = Ok("Rfc3164")
        /\ Str(value) \in {"rfc5424", "RFC5424"} => protocol = Ok("Rfc5424")
        /\ Str(value) \notin {"rfc3164", "RFC3164", "rfc5424", "RFC5424"}
              => Rejected(protocol) /\ protocol.err.unexpected = Str(value)

C4_Witness ==
    /\ ProtocolRan
    /\ Str(value) = "RFC5424"
    /\ protocol = Ok("Rfc5424")

\* C5 as claimed: the protocol parser ignores letter case, so every spelling
\* of rfc3164 yields Rfc3164 and every spelling of rfc5424 yields Rfc5424.
C5_CaseInsensitive ==
    ProtocolRan =>
        /\ Str(ToLower(value)) = "rfc3164" => protocol = Ok("Rfc3164")
        /\ Str(ToLower(value)) = "rfc5424" => protocol = Ok("Rfc5424")

\* C5 as amended: of the spellings of rfc3164 (of rfc5424) exactly the
\* all-lowercase and the all-uppercase one yield Rfc3164 (Rfc5424); every
\* mixed-case spelling is answered with a validation error.
C5_LowerOrUpperOnly ==
    ProtocolRan =>
        /\ Str(ToLower(value)) = "rfc3164" =>
              IF value \in {ToLower(value), ToUpper(value)}
              THEN protocol = Ok("Rfc3164") ELSE Rejected(protocol)
        /\ Str(ToLower(value)) = "rfc5424" =>
              IF value \in {ToLower(value), ToUpper(value)}
              THEN protocol = Ok("Rfc5424") ELSE Rejected(protocol)

C5_Witness ==
    /\ ProtocolRan
    /\ Str(value) = "Rfc3164"
    /\ Rejected(protocol)

C6_Tokens ==
    {"kern", "user", "mail", "daemon", "auth", "syslog", "lpr", "news", "uucp",
     "cron", "authpriv", "ftp", "local0", "local1", "local2", "local3",
     "local4", "local5", "local6", "local7"}

\* C6: the facility parser accepts exactly the 20 lowercase tokens, each
\* yielding a member no other token yields ("local7" yields Local7), and
\* answers every other string, any other spelling of a token such as
\* "LOCAL7" included, with a validation error.
C6_FacilityTokens ==
    FacilityRan =>
        /\ facility.ok <=> Str(value) \in C6_Tokens
        /\ facility.ok =>
              /\ facility.val \in SyslogFacility
              /\ \A w \in FacilityWords \ {value} :
                    SyslogFacility_visit_str(Str(w)) /= facility
        /\ ~facility.ok => Rejected(facility) /\ facility.err.unexpected = Str(value)
        /\ Str(value) = "local7" => facility = Ok("Local7")
        /\ value /= ToLower(value) => ~facility.ok
        /\ Cardinality(C6_Tokens) = 20

C6_Witness ==
    /\ FacilityRan
    /\ Str(value) = "LOCAL7"
    /\ Rejected(facility)

\* the members of syslog::Facility the translation names
SyslogCrateFacility ==
    {"LOG_KERN", "LOG_USER", "LOG_MAIL", "LOG_DAEMON", "LOG_AUTH", "LOG_SYSLOG",
     "LOG_LPR", "LOG_NEWS", "LOG_UUCP", "LOG_CRON", "LOG_AUTHPRIV", "LOG_FTP",
     "LOG_LOCAL0", "LOG_LOCAL1", "LOG_LOCAL2", "LOG_LOCAL3", "LOG_LOCAL4",
     "LOG_LOCAL5", "LOG_LOCAL6", "LOG_LOCAL7"}

\* C7: the translation to syslog::Facility is total and one-to-one: each of
\* the 20 members has a target, no two members share one, and a member goes
\* to the identifier of its own name (LOG_ and the name in capitals).
C7_IntoFacility ==
    ext /= Unset =>
        /\ Cardinality(SyslogFacility) = 20
        /\ \A m \in SyslogFacility : SyslogFacility_into(m) \in SyslogCrateFacility
        /\ ext = SyslogFacility_into(facility.val)
        /\ \A m \in SyslogFacility \ {facility.val} : SyslogFacility_into(m) /= ext
        /\ ext = "LOG_" \o Str(ToUpper(value))

C7_Witness ==
    /\ facility = Ok("AuthPriv")
    /\ ext = "LOG_AUTHPRIV"

(***************************************************************************)
(* Properties of the loader (checked under Spec)                           *)
(***************************************************************************)
Returned == pc = "done"
ReadFailed == raw /= NotRun /\ ~raw.ok
ReadSucceeded == raw /= NotRun /\ raw.ok
ParseFailed == parsed /= NotRun /\ ~parsed.ok
ParseSucceeded == parsed /= NotRun /\ parsed.ok

\* the document read holds, somewhere, the value v under the key k of a table
HasLogField(k, v) ==
    /\ raw.val /= Malformed
    /\ raw.val.f.log /= Absent
    /\ raw.val.f.log.f[k] = v
HasSyslogField(k, v) ==
    /\ raw.val /= Malformed
    /\ raw.val.f.log /= Absent
    /\ raw.val.f.log.f.syslog /= Absent
    /\ raw.val.f.log.f.syslog.f[k] = v
HasNetworkField(k, v) ==
    /\ raw.val /= Malformed
    /\ raw.val.f.network /= Absent
    /\ raw.val.f.network.f[k] = v

\* C1: Config::from_file never fails: when the read fails, or the text is
\* malformed, holds an unrecognized variant token or a value of the wrong
\* type, it returns exactly Config::default(); it returns the parsed Config
\* only when the read and the parse both succeeded.
C1_FromFileFallsBack ==
    entry = "from_file" =>
        /\ pc /= "panicked"
        /\ Returned =>
            /\ result /= NotRun
            /\ ReadFailed => result = Config_default /\ parsed = NotRun
            /\ ReadSucceeded =>
                /\ parsed /= NotRun
                /\ ParseFailed => result = Config_default
                /\ ParseSucceeded => result = parsed.val
                /\ raw.val = Malformed => ParseFailed
                /\ HasSyslogField("protocol", TStr("Rfc5424")) => ParseFailed
                /\ HasSyslogField("facility", TStr("LOCAL7")) => ParseFailed
                /\ HasLogField("level", TInt(3)) => ParseFailed
                /\ HasNetworkField("port", TInt(70000)) => ParseFailed
                /\ HasNetworkField("hostname", TStr("localhost")) => ParseFailed
            /\ result /= Config_default => ReadSucceeded /\ ParseSucceeded

C1_Witness ==
    /\ entry = "from_file"
    /\ Returned
    /\ ReadSucceeded
    /\ HasSyslogField("facility", TStr("LOCAL7"))
    /\ ParseFailed
    /\ result = Config_default

\* ---- what per-field defaulting asks for ---------------------------------
Supplied(v) == v /= Absent
ValidLeaf(v, De(_)) == Supplied(v) => De(v).ok
SuppliedOr(v, d, De(_)) == IF Supplied(v) THEN De(v).val ELSE d
SuppliedOption(v, De(_)) == IF Supplied(v) THEN Some(De(v).val) ELSE NoneV

WellFormedSyslog(t) ==
    /\ ValidLeaf(t.f.host, IpAddr_deserialize)
    /\ ValidLeaf(t.f.port, u16_deserialize)
    /\ ValidLeaf(t.f.protocol, SyslogProtocol_deserialize)
    /\ ValidLeaf(t.f.facility, SyslogFacility_deserialize)
    /\ ValidLeaf(t.f.process, String_deserialize)
WellFormedLog(t) ==
    /\ ValidLeaf(t.f.level, Level_deserialize)
    /\ ValidLeaf(t.f.file, String_deserialize)
    /\ Supplied(t.f.syslog) => WellFormedSyslog(t.f.syslog)
WellFormedNetwork(t) ==
    /\ ValidLeaf(t.f.hostname, IpAddr_deserialize)
    /\ ValidLeaf(t.f.port, u16_deserialize)
WellFormed(d) ==
    /\ d /= Malformed
    /\ Supplied(d.f.log) => WellFormedLog(d.f.log)
    /\ Supplied(d.f.network) => WellFormedNetwork(d.f.network)

ExpectedSyslog(t) ==
    [host |-> SuppliedOption(t.f.host, IpAddr_deserialize),
     port |-> SuppliedOption(t.f.port, u16_deserialize),
     protocol |-> SuppliedOr(t.f.protocol, "Rfc3164", SyslogProtocol_deserialize),
     facility |-> SuppliedOr(t.f.facility, "User", SyslogFacility_deserialize),
     process |-> SuppliedOr(t.f.process, "", String_deserialize)]
ExpectedLog(t) ==
    IF ~Supplied(t) THEN [level |-> "Info", file |-> NoneV, syslog |-> NoneV]
    ELSE [level |-> SuppliedOr(t.f.level, "Info", Level_deserialize),
          file |-> SuppliedOption(t.f.file, String_deserialize),
          syslog |-> IF Supplied(t.f.syslog)
                     THEN Some(ExpectedSyslog(t.f.syslog)) ELSE NoneV]
ExpectedNetwork(t) ==
    IF ~Supplied(t) THEN [hostname |-> <<0, 0, 0, 0>>, port |-> 5672]
    ELSE [hostname |-> SuppliedOr(t.f.hostname, <<0, 0, 0, 0>>, IpAddr_deserialize),
          port |-> SuppliedOr(t.f.port, 5672, u16_deserialize)]
ExpectedConfig(d) ==
    [log |-> ExpectedLog(d.f.log), network |-> ExpectedNetwork(d.f.network),
     queue |-> "Queue"]

\* C2: defaulting is per field: loading a well-formed document that supplies
\* only some of the fields returns a Config whose supplied fields have their
\* parsed values and whose omitted fields, at every level, have their
\* defaults.
C2_PerFieldDefaulting ==
    (Returned /\ ReadSucceeded /\ WellFormed(raw.val))
        => result = ExpectedConfig(raw.val)

\* C3: loading a document whose log.syslog table omits protocol, facility or
\* process keeps the values the table supplies and fills the omitted ones with
\* Rfc3164, User and the empty string.
C3_SyslogDefaults ==
    (/\ Returned /\ ReadSucceeded /\ WellFormed(raw.val)
     /\ Supplied(raw.val.f.log) /\ Supplied(raw.val.f.network)
     /\ Supplied(raw.val.f.queue)
     /\ Supplied(raw.val.f.log.f.syslog)
     /\ \E k \in {"protocol", "facility", "process"} :
            ~Supplied(raw.val.f.log.f.syslog.f[k]))
        => result.log.syslog = Some(ExpectedSyslog(raw.val.f.log.f.syslog))

EnvUnset == env_var /= NotRun /\ ~env_var.ok
PathResolved == pc \in {"read", "parse", "done"}

\* C8: of the three from_config_file only the windows one can abort, and it
\* does when APPDATA is not set; the macos and the linux/unix one return a
\* Config whatever the environment and the command's outcome, with the path
\* "/etc/another-mq/another-mq.toml" when ANOTHERMQ_HOME is unset.
C8_OnlyWindowsAborts ==
    /\ pc = "panicked" => target_os = "windows" /\ EnvUnset
    /\ (target_os = "windows" /\ EnvUnset) => pc = "panicked"
    /\ (target_os \in {"macos", "linux"} /\ EnvUnset /\ PathResolved)
          => config_path = "/etc/another-mq/another-mq.toml"

\* `$(...)`: the text a command wrote, without the line feeds at its end
RECURSIVE CommandSubstitution(_)
CommandSubstitution(bytes) ==
    IF bytes /= <<>> /\ bytes[Len(bytes)] = "\n"
    THEN CommandSubstitution(SubSeq(bytes, 1, Len(bytes) - 1))
    ELSE bytes

\* C9: on macos the file read is $(brew --prefix)/etc/another-mq/another-mq.toml,
\* the prefix brew reports with the suffix right after it; when brew cannot
\* be run the path is the one the linux/unix branch computes from the same
\* ANOTHERMQ_HOME.
C9_MacosPath ==
    (entry = "from_config_file" /\ target_os = "macos" /\ PathResolved) =>
        IF brew.ok
        THEN config_path =
                Str(CommandSubstitution(brew.val.bytes)) \o "/etc/another-mq/another-mq.toml"
        ELSE config_path = unix_config_path(env_var)

Count(tr, e) == Cardinality({i \in DOMAIN tr : tr[i] = e})
Before(tr, a, b) ==
    \A i, j \in DOMAIN tr : (tr[i] = a /\ tr[j] = b) => i < j

\* the order of the steps of a call, as far as it got
C10_StepOrder ==
    /\ Count(trace, "read") <= 1
    /\ Count(trace, "parse") <= 1
    /\ Count(trace, "command") <= 1
    /\ Before(trace, "env", "read") /\ Before(trace, "command", "read")
    /\ Before(trace, "command", "env")
    /\ Before(trace, "read", "parse")
    /\ Count(trace, "parse") = 1 => Count(trace, "read") = 1 /\ ReadSucceeded
    /\ Count(trace, "command") = 1
          => entry = "from_config_file" /\ target_os = "macos"
    /\ entry = "from_file"
          => Count(trace, "command") = 0 /\ Count(trace, "env") = 0
    /\ Returned =>
          /\ result /= NotRun
          /\ trace[Len(trace)] = (IF ReadSucceeded THEN "parse" ELSE "read")

\* C10 as claimed: in every execution of either entry point the steps are
\* resolve, read, parse, return, and exactly one read is attempted.
C10_OneReadInEveryExecution ==
    /\ C10_StepOrder
    /\ pc \in {"done", "panicked"} => Count(trace, "read") = 1

\* C10 as amended: the steps are in that order, an execution that returns a
\* Config attempted exactly one read, and an execution that aborts while the
\* path is resolved attempted neither a read nor a parse.
C10_OneReadWhenReturning ==
    /\ C10_StepOrder
    /\ Returned => Count(trace, "read") = 1
    /\ pc = "panicked" => Count(trace, "read") = 0 /\ Count(trace, "parse") = 0

C10_Witness ==
    /\ Returned
    /\ entry = "from_config_file"
    /\ target_os = "macos"
    /\ trace = <<"command", "read", "parse">>

====
